---- MODULE Spec2Model ----
(***************************************************************************)
(* Model of src/src/script.js: the DOMContentLoaded handler that sets up   *)
(* two WebGL canvases (a cube and a pyramid) and the two                   *)
(* requestAnimationFrame loops that rotate and draw them.                  *)
(*                                                                         *)
(* Numbers.  JavaScript numbers are modelled in fixed point with           *)
(* resolution 1/Scale: the integer x stands for the real x / Scale.  The   *)
(* timestamps the platform hands to a frame callback are whole             *)
(* milliseconds, so every product and difference the script computes is    *)
(* exact in this representation; the rounding of IEEE doubles is not       *)
(* modelled.                                                               *)
(*                                                                         *)
(* WebGL objects are modelled by handles: 0 is JavaScript null, a positive *)
(* number is an object created on that canvas's context.                   *)
(***************************************************************************)
EXTENDS Integers, Sequences, FiniteSets, TLC

\* ---------------------------------------------------------------- bounds
\* Largest timestamp (milliseconds) the platform clock reaches.
MaxTime == 3
\* The per-canvas count of draw calls saturates here.
MaxFrames == 1

\* ------------------------------------------------------------- constants
\* Fixed-point resolution: 0.001 is the smallest number the script names.
Scale == 1000
\* The literal 0.001 of `now *= 0.001`, in fixed point.
Milli == 1
\* vertex_count of draw_scene_cube and of draw_scene_pyramid.
CubeVertexCount == 36
PyramidVertexCount == 21

Shapes == {"cube", "pyramid"}

\* ------------------------------------------------------------ arithmetic
\* a * b on fixed-point numbers.
FPMul(a, b) == (a * b) \div Scale

\* A whole number as a fixed-point number.
FP(n) == n * Scale

Min(a, b) == IF a < b THEN a ELSE b

RECURSIVE Concat(_)
\* Array.prototype.concat over a sequence of arrays.
Concat(ss) == IF ss = <<>> THEN <<>> ELSE Head(ss) \o Concat(Tail(ss))

\* ------------------------------------------------------------ the data
\* positions of create_buffer_position_cube: 24 vertices, 3 floats each.
CubePositions ==
  << -1, -1,  1,    1, -1,  1,    1,  1,  1,   -1,  1,  1,
     -1, -1, -1,   -1,  1, -1,    1,  1, -1,    1, -1, -1,
     -1,  1, -1,   -1,  1,  1,    1,  1,  1,    1,  1, -1,
     -1, -1, -1,    1, -1, -1,    1, -1,  1,   -1, -1,  1,
      1, -1, -1,    1,  1, -1,    1,  1,  1,    1, -1,  1,
     -1, -1, -1,   -1, -1,  1,   -1,  1,  1,   -1,  1, -1 >>

\* positions of create_buffer_position_pyramid.
PyramidPositions ==
  <<  0,  1,  0,   -1, -1,  1,    1, -1,  1,
      0,  1,  0,    1, -1, -1,   -1, -1, -1,
      0,  1,  0,   -1, -1, -1,   -1, -1,  1,
      0,  1,  0,   -1, -1, -1,   -1, -1,  1,
      0,  1,  0,    1, -1,  1,    1, -1, -1,
      1, -1, -1 >>

\* face_colors of create_buffer_color: red, green, blue, yellow.
FaceColors ==
  << <<1, 0, 0, 1>>, <<0, 1, 0, 1>>, <<0, 0, 1, 1>>, <<1, 1, 0, 1>> >>

RECURSIVE ColorsFrom(_, _)
\* The loop of create_buffer_color from j on (j counts from 1 here):
\* colors = colors.concat(c, c, c, c) for every face colour c.
ColorsFrom(faces, j) ==
  IF j > Len(faces) THEN <<>>
  ELSE Concat(<<faces[j], faces[j], faces[j], faces[j]>>) \o ColorsFrom(faces, j + 1)

\* The array create_buffer_color uploads.
Colors == ColorsFrom(FaceColors, 1)

\* indices of create_buffer_index.
Indices ==
  <<  0,  1,  2,    0,  2,  3,
      4,  5,  6,    4,  6,  7,
      8,  9, 10,    8, 10, 11,
     12, 13, 14,   12, 14, 15,
     16, 17, 18,   16, 18, 19,
     20, 21, 22,   20, 22, 23 >>

\* The positions create_buffers_cube / create_buffers_pyramid upload.
Positions(s) == IF s = "cube" THEN CubePositions ELSE PyramidPositions

\* The vertex_count draw_scene_cube / draw_scene_pyramid passes to drawElements.
VertexCount(s) == IF s = "cube" THEN CubeVertexCount ELSE PyramidVertexCount

\* --------------------------------------------------------------- state
VARIABLES
  clock,      \* the platform's time in milliseconds, as frames are stamped with
  spc,        \* per shape: where draw_cube / draw_pyramid stands
  gl,         \* per shape: getContext("webgl") returned a context
  handles,    \* per shape: number of WebGL objects created on its context
  compiled,   \* per shape: number of compileShader calls
  programs,   \* per shape: number of createProgram calls
  vs, fs,     \* per shape: what load_shader returned (0 is null)
  program,    \* per shape: what create_shader_program returned (0 is null)
  buffers,    \* per shape: the record create_buffers_* returns (handles)
  data,       \* per shape and buffer: the array bufferData uploaded
  uploads,    \* per shape and buffer: number of bufferData calls
  alerts,     \* per shape: number of alert() calls of its setup
  pending,    \* per shape: render callbacks waiting in the frame-callback list
  rpc,        \* per shape: where its render callback stands
  stamp,      \* per shape: the timestamp passed to the last render call (ms)
  before,     \* per shape: the timestamp of the render call before the last
              \*            one, and the rotation when that call had returned
  now,        \* per shape: render's parameter `now`
  then,       \* per shape: the closure variable `then`
  delta,      \* delta1 (cube) and delta2 (pyramid)
  rotation,   \* cube_rotation and pyramid_rotation
  frames,     \* per shape: number of drawElements calls, saturating
  lastDraw    \* per shape: what the last drawElements call drew with

setupVars == <<spc, gl, handles, compiled, programs, vs, fs, program,
               buffers, data, uploads, alerts>>
loopVars == <<pending, rpc, stamp, before, now, then, delta, rotation, frames, lastDraw>>
vars == <<clock, setupVars, loopVars>>

BufferNames == {"position", "color", "indices"}

\* draw_* without the call of create_buffer_index.
SetupOrderNoIndexBuffer ==
  <<"getContext", "load_vs", "load_fs", "link", "info",
    "buf_position", "buf_color", "raf">>

\* The statements of draw_cube / draw_pyramid, in source order.
SetupOrder ==
  <<"getContext", "load_vs", "load_fs", "link", "info",
    "buf_position", "buf_color", "buf_index", "raf">>

\* render with the rotation update moved before the draw.
RenderOrderUpdateFirst == <<"time", "update", "draw", "raf">>

\* render with requestAnimationFrame(render) as its first statement.
RenderOrderRafFirst == <<"raf", "time", "draw", "update">>

\* The statements of render, in source order.
RenderOrder == <<"time", "draw", "update", "raf">>

\* The statement after l in the straight-line code `order`; `end` after the last.
After(order, l, end) ==
  LET i == CHOOSE k \in 1..Len(order) : order[k] = l
  IN  IF i = Len(order) THEN end ELSE order[i + 1]

SetupLabels == {SetupOrder[i] : i \in 1..Len(SetupOrder)} \cup {"todo", "returned", "threw"}
RenderLabels == {RenderOrder[i] : i \in 1..Len(RenderOrder)} \cup {"idle"}

NoDraw == [program |-> 0, position |-> 0, color |-> 0, indices |-> 0,
           count |-> 0, angle |-> 0]

\* The state when the DOMContentLoaded listener starts to run: the
\* module-scope counters are 0 and draw_cube() is about to be called.
Init ==
  /\ clock = 0
  /\ spc = [s \in Shapes |-> IF s = "cube" THEN SetupOrder[1] ELSE "todo"]
  /\ gl = [s \in Shapes |-> FALSE]
  /\ handles = [s \in Shapes |-> 0]
  /\ compiled = [s \in Shapes |-> 0]
  /\ programs = [s \in Shapes |-> 0]
  /\ vs = [s \in Shapes |-> 0]
  /\ fs = [s \in Shapes |-> 0]
  /\ program = [s \in Shapes |-> 0]
  /\ buffers = [s \in Shapes |-> [b \in BufferNames |-> 0]]
  /\ data = [s \in Shapes |-> [b \in BufferNames |-> <<>>]]
  /\ uploads = [s \in Shapes |-> [b \in BufferNames |-> 0]]
  /\ alerts = [s \in Shapes |-> 0]
  /\ pending = [s \in Shapes |-> 0]
  /\ rpc = [s \in Shapes |-> "idle"]
  /\ stamp = [s \in Shapes |-> 0]
  /\ before = [s \in Shapes |-> [stamp |-> 0, rotation |-> 0]]
  /\ now = [s \in Shapes |-> 0]
  /\ then = [s \in Shapes |-> 0]
  /\ delta = [s \in Shapes |-> 0]
  /\ rotation = [s \in Shapes |-> 0]
  /\ frames = [s \in Shapes |-> 0]
  /\ lastDraw = [s \in Shapes |-> NoDraw]

\* ------------------------------------------------ the listener: set-up
\* draw_cube / draw_pyramid leaves statement l of shape s and goes on to
\* `next`.  The listener calls draw_cube() and then draw_pyramid(): the
\* pyramid's set-up starts when draw_cube returns, and never starts when
\* draw_cube ends by an uncaught exception.
Goto(s, next) ==
  spc' = [t \in Shapes |->
            IF t = s THEN next
            ELSE IF s = "cube" /\ next = "returned" /\ spc[t] = "todo"
                 THEN SetupOrder[1]
                 ELSE spc[t]]

\* The listener has run to its end (or died): frame callbacks may run.
HandlerDone ==
  \/ spc["cube"] = "threw"
  \/ spc["pyramid"] \in {"returned", "threw"}

\* Time passes.  The platform fixes a frame's timestamp when the frame
\* starts and the script never reads the clock itself, so the time that
\* passes while script runs shows only in the timestamp of a later frame.
Tick ==
  /\ HandlerDone
  /\ \A s \in Shapes : rpc[s] = "idle"
  /\ clock < MaxTime
  /\ clock' = clock + 1
  /\ UNCHANGED <<setupVars, loopVars>>

\* The null test of draw_* with its `return` missing.
ContextNullNoReturn(s) ==
  /\ alerts' = [alerts EXCEPT ![s] = @ + 1]
  /\ Goto(s, After(SetupOrder, "getContext", "returned"))
  /\ UNCHANGED gl

\* getContext("webgl") returned null: alert and return.
ContextNull(s) ==
  /\ alerts' = [alerts EXCEPT ![s] = @ + 1]
  /\ Goto(s, "returned")
  /\ UNCHANGED gl

\* getContext("webgl") returned a context.
ContextOk(s) ==
  /\ gl' = [gl EXCEPT ![s] = TRUE]
  /\ Goto(s, After(SetupOrder, "getContext", "returned"))
  /\ UNCHANGED alerts

GetContext(s) ==
  /\ spc[s] = "getContext"
  /\ \/ ContextNull(s)
     \/ ContextOk(s)
  /\ UNCHANGED <<clock, handles, compiled, programs, vs, fs, program,
                 buffers, data, uploads, loopVars>>

\* load_shader: createShader, shaderSource, compileShader; on a failed
\* COMPILE_STATUS alert, deleteShader and return null.  Yields the returned
\* handle in `out`.
load_shader(s, ok, out) ==
  /\ handles' = [handles EXCEPT ![s] = @ + 1]
  /\ compiled' = [compiled EXCEPT ![s] = @ + 1]
  /\ IF ok
     THEN /\ out = handles[s] + 1
          /\ UNCHANGED alerts
     ELSE /\ out = 0
          /\ alerts' = [alerts EXCEPT ![s] = @ + 1]

\* create_shader_program, first call: load_shader(gl, gl.VERTEX_SHADER, ...).
LoadVertexShader(s) ==
  /\ spc[s] = "load_vs"
  /\ \E ok \in BOOLEAN, out \in 0..(handles[s] + 1) :
       /\ load_shader(s, ok, out)
       /\ vs' = [vs EXCEPT ![s] = out]
  /\ Goto(s, After(SetupOrder, "load_vs", "returned"))
  /\ UNCHANGED <<clock, gl, programs, fs, program, buffers, data, uploads, loopVars>>

\* create_shader_program, second call: load_shader(gl, gl.FRAGMENT_SHADER, ...).
LoadFragmentShader(s) ==
  /\ spc[s] = "load_fs"
  /\ \E ok \in BOOLEAN, out \in 0..(handles[s] + 1) :
       /\ load_shader(s, ok, out)
       /\ fs' = [fs EXCEPT ![s] = out]
  /\ Goto(s, After(SetupOrder, "load_fs", "returned"))
  /\ UNCHANGED <<clock, gl, programs, vs, program, buffers, data, uploads, loopVars>>

\* The rest of create_shader_program: createProgram, attachShader twice,
\* linkProgram, and the LINK_STATUS test.  attachShader with a null shader
\* is an error of the binding: a platform either throws a TypeError (the
\* exception leaves create_shader_program, draw_* and the listener) or
\* records a GL error and goes on; in the second case nothing is attached
\* and the link fails.
LinkProgram(s) ==
  /\ spc[s] = "link"
  /\ handles' = [handles EXCEPT ![s] = @ + 1]
  /\ programs' = [programs EXCEPT ![s] = @ + 1]
  /\ \E throws \in BOOLEAN, linked \in BOOLEAN :
       IF vs[s] = 0 \/ fs[s] = 0
       THEN /\ linked = FALSE
            /\ IF throws
               THEN /\ Goto(s, "threw")
                    /\ UNCHANGED <<program, alerts>>
               ELSE /\ program' = [program EXCEPT ![s] = 0]
                    /\ alerts' = [alerts EXCEPT ![s] = @ + 1]
                    /\ Goto(s, After(SetupOrder, "link", "returned"))
       ELSE /\ throws = FALSE
            /\ program' = [program EXCEPT ![s] = IF linked THEN handles[s] + 1 ELSE 0]
            /\ alerts' = [alerts EXCEPT ![s] = IF linked THEN @ ELSE @ + 1]
            /\ Goto(s, After(SetupOrder, "link", "returned"))
  /\ UNCHANGED <<clock, gl, compiled, vs, fs, buffers, data, uploads, loopVars>>

\* program_info: getAttribLocation / getUniformLocation on shader_program.
\* draw_* does not test shader_program: with a null program the binding
\* either throws a TypeError or records a GL error and goes on.
ProgramInfo(s) ==
  /\ spc[s] = "info"
  /\ \E throws \in BOOLEAN :
       IF program[s] = 0 /\ throws
       THEN Goto(s, "threw")
       ELSE /\ program[s] = 0 \/ ~throws
            /\ Goto(s, After(SetupOrder, "info", "returned"))
  /\ UNCHANGED <<clock, gl, handles, compiled, programs, vs, fs, program,
                 buffers, data, uploads, alerts, loopVars>>

\* createBuffer, bindBuffer, bufferData of one buffer b with array a.
create_buffer(s, b, a) ==
  /\ handles' = [handles EXCEPT ![s] = @ + 1]
  /\ buffers' = [buffers EXCEPT ![s][b] = handles[s] + 1]
  /\ data' = [data EXCEPT ![s][b] = a]
  /\ uploads' = [uploads EXCEPT ![s][b] = @ + 1]

\* create_buffer_position_cube / create_buffer_position_pyramid.
CreateBufferPosition(s) ==
  /\ spc[s] = "buf_position"
  /\ create_buffer(s, "position", Positions(s))
  /\ Goto(s, After(SetupOrder, "buf_position", "returned"))
  /\ UNCHANGED <<clock, gl, compiled, programs, vs, fs, program, alerts, loopVars>>

\* create_buffer_color.
CreateBufferColor(s) ==
  /\ spc[s] = "buf_color"
  /\ create_buffer(s, "color", Colors)
  /\ Goto(s, After(SetupOrder, "buf_color", "returned"))
  /\ UNCHANGED <<clock, gl, compiled, programs, vs, fs, program, alerts, loopVars>>

\* create_buffer_index.
CreateBufferIndex(s) ==
  /\ spc[s] = "buf_index"
  /\ create_buffer(s, "indices", Indices)
  /\ Goto(s, After(SetupOrder, "buf_index", "returned"))
  /\ UNCHANGED <<clock, gl, compiled, programs, vs, fs, program, alerts, loopVars>>

\* let then = 0; requestAnimationFrame(render); and draw_* returns.
ScheduleFirst(s) ==
  /\ spc[s] = "raf"
  /\ then' = [then EXCEPT ![s] = 0]
  /\ pending' = [pending EXCEPT ![s] = @ + 1]
  /\ Goto(s, After(SetupOrder, "raf", "returned"))
  /\ UNCHANGED <<clock, gl, handles, compiled, programs, vs, fs, program,
                 buffers, data, uploads, alerts,
                 rpc, stamp, before, now, delta, rotation, frames, lastDraw>>

\* ------------------------------------------------ the frame callbacks
\* Both renders using delta1.
DeltaOfCubeOnly(s) == "cube"

\* then - now.
ElapsedSwapped(n, t) == t - n

\* cube_rotation = delta1: assignment in place of +=.
NextRotationAssigned(rot, d) == d

\* Which of the module-scope variables delta1 / delta2 the render of s uses.
DeltaOf(s) == s

\* now - then.
Elapsed(n, t) == n - t

\* cube_rotation += delta1 / pyramid_rotation += delta2.
NextRotation(rot, d) == rot + d

\* The platform takes the callback of s off its list and calls render(now)
\* with the frame's timestamp.  Script runs to completion: no callback
\* starts while the listener or another callback is running.
RenderStart(s) ==
  /\ HandlerDone
  /\ \A t \in Shapes : rpc[t] = "idle"
  /\ pending[s] > 0
  /\ pending' = [pending EXCEPT ![s] = @ - 1]
  /\ stamp' = [stamp EXCEPT ![s] = clock]
  /\ before' = [before EXCEPT ![s] = [stamp |-> stamp[s], rotation |-> rotation[s]]]
  /\ now' = [now EXCEPT ![s] = FP(clock)]
  /\ rpc' = [rpc EXCEPT ![s] = RenderOrder[1]]
  /\ UNCHANGED <<clock, setupVars, then, delta, rotation, frames, lastDraw>>

\* now *= 0.001; delta = now - then; then = now.
RenderTime(s) ==
  /\ rpc[s] = "time"
  /\ LET seconds == FPMul(now[s], Milli)
     IN  /\ now' = [now EXCEPT ![s] = seconds]
         /\ delta' = [delta EXCEPT ![DeltaOf(s)] = Elapsed(seconds, then[s])]
         /\ then' = [then EXCEPT ![s] = seconds]
  /\ rpc' = [rpc EXCEPT ![s] = After(RenderOrder, "time", "idle")]
  /\ UNCHANGED <<clock, setupVars, pending, stamp, before, rotation, frames, lastDraw>>

\* A render that builds its buffers anew in every frame before drawing.
RenderDrawRebuilding(s) ==
  /\ rpc[s] = "draw"
  /\ uploads' = [uploads EXCEPT ![s] = [b \in BufferNames |-> @[b] + 1]]
  /\ lastDraw' = [lastDraw EXCEPT ![s] =
                    [program |-> program[s],
                     position |-> buffers[s]["position"],
                     color |-> buffers[s]["color"],
                     indices |-> buffers[s]["indices"],
                     count |-> VertexCount(s),
                     angle |-> rotation[s]]]
  /\ frames' = [frames EXCEPT ![s] = Min(@ + 1, MaxFrames)]
  /\ rpc' = [rpc EXCEPT ![s] = After(RenderOrder, "draw", "idle")]
  /\ UNCHANGED <<clock, spc, gl, handles, compiled, programs, vs, fs, program,
                 buffers, data, alerts,
                 pending, stamp, before, now, then, delta, rotation>>

\* draw_scene_cube / draw_scene_pyramid: binds the three buffers of
\* `buffers`, uses program_info.program, rotates the model-view matrix by
\* the angle passed in and calls drawElements.
RenderDraw(s) ==
  /\ rpc[s] = "draw"
  /\ lastDraw' = [lastDraw EXCEPT ![s] =
                    [program |-> program[s],
                     position |-> buffers[s]["position"],
                     color |-> buffers[s]["color"],
                     indices |-> buffers[s]["indices"],
                     count |-> VertexCount(s),
                     angle |-> rotation[s]]]
  /\ frames' = [frames EXCEPT ![s] = Min(@ + 1, MaxFrames)]
  /\ rpc' = [rpc EXCEPT ![s] = After(RenderOrder, "draw", "idle")]
  /\ UNCHANGED <<clock, setupVars, pending, stamp, before, now, then, delta, rotation>>

\* cube_rotation += delta1 / pyramid_rotation += delta2.
RenderUpdate(s) ==
  /\ rpc[s] = "update"
  /\ rotation' = [rotation EXCEPT ![s] = NextRotation(@, delta[DeltaOf(s)])]
  /\ rpc' = [rpc EXCEPT ![s] = After(RenderOrder, "update", "idle")]
  /\ UNCHANGED <<clock, setupVars, pending, stamp, before, now, then, delta, frames, lastDraw>>

\* A render that returns without requestAnimationFrame(render).
RenderRafOmitted(s) ==
  /\ rpc[s] = "raf"
  /\ rpc' = [rpc EXCEPT ![s] = After(RenderOrder, "raf", "idle")]
  /\ UNCHANGED <<clock, setupVars, pending, stamp, before, now, then, delta,
                 rotation, frames, lastDraw>>

\* requestAnimationFrame(render), the last statement of render.
RenderRaf(s) ==
  /\ rpc[s] = "raf"
  /\ pending' = [pending EXCEPT ![s] = @ + 1]
  /\ rpc' = [rpc EXCEPT ![s] = After(RenderOrder, "raf", "idle")]
  /\ UNCHANGED <<clock, setupVars, stamp, before, now, then, delta, rotation, frames, lastDraw>>

\* One statement of the set-up of s.
SetupStep(s) ==
  \/ GetContext(s)
  \/ LoadVertexShader(s)
  \/ LoadFragmentShader(s)
  \/ LinkProgram(s)
  \/ ProgramInfo(s)
  \/ CreateBufferPosition(s)
  \/ CreateBufferColor(s)
  \/ CreateBufferIndex(s)
  \/ ScheduleFirst(s)

\* One statement of a running render callback of s.
RenderBody(s) ==
  \/ RenderTime(s)
  \/ RenderDraw(s)
  \/ RenderUpdate(s)
  \/ RenderRaf(s)

Next ==
  \/ Tick
  \/ \E s \in Shapes : SetupStep(s)
  \/ \E s \in Shapes : RenderStart(s)
  \/ \E s \in Shapes : RenderBody(s)

Spec == Init /\ [][Next]_vars

\* The listener and every callback run to completion, and the platform
\* calls every callback on its frame-callback list in the next frame.
FairSpec ==
  /\ Spec
  /\ \A s \in Shapes : WF_vars(SetupStep(s))
  /\ \A s \in Shapes : WF_vars(RenderBody(s))
  /\ \A s \in Shapes : SF_vars(RenderStart(s))

TypeOK ==
  /\ clock \in 0..MaxTime
  /\ spc \in [Shapes -> SetupLabels]
  /\ gl \in [Shapes -> BOOLEAN]
  /\ rpc \in [Shapes -> RenderLabels]
  /\ pending \in [Shapes -> 0..1]
  /\ frames \in [Shapes -> 0..MaxFrames]
  /\ \A s \in Shapes : alerts[s] \in 0..3 /\ handles[s] \in 0..6

\* ------------------------------------------------------------ predicates
\* A render callback of s is running.
Running(s) == rpc[s] # "idle"

\* At least one render call of s has returned and none is running.
Returned(s) == rpc[s] = "idle" /\ frames[s] > 0

\* getContext returned null for s and draw_* is past the null test.
ContextFailed(s) == ~gl[s] /\ spc[s] \notin {"todo", "getContext"}

\* A shader of s did not compile or its program did not link.
ShaderFailed(s) == gl[s] /\ alerts[s] > 0

\* draw_* of s reached its requestAnimationFrame(render) and returned.
LoopStarted(s) == gl[s] /\ spc[s] = "returned"

\* The canvas of s has a frame callback waiting or running, or has drawn.
HasFrames(s) == pending[s] > 0 \/ Running(s) \/ frames[s] > 0

\* The fixed-point number x stands for ms milliseconds counted in seconds.
IsSecondsOf(x, ms) == x * 1000 = ms * Scale

\* Buffer buf of 4 floats per vertex has an entry for vertex v (from 0).
HasColor(buf, v) == 4 * v + 4 <= Len(buf)

\* The RGBA colour of vertex v in buf.
ColorAt(buf, v) == SubSeq(buf, 4 * v + 1, 4 * v + 4)

\* ---------------------------------------------------------------- claims
\* C1: for each shape, whenever a render call has returned, the rotation
\* angle equals the timestamp of that call in seconds (tn / 1000), whatever
\* the number and the spacing of the frames before it.
C1_RotationIsElapsedSeconds ==
  \A s \in Shapes : Returned(s) => IsSecondsOf(rotation[s], stamp[s])

\* C1 witness: the cube has had at least two frames, unevenly spaced, the
\* last at 3 ms, and its angle is 0.003.
C1_Witness ==
  /\ Returned("cube")
  /\ before["cube"].stamp = 1
  /\ stamp["cube"] = 3
  /\ rotation["cube"] = 3

\* C2 (as claimed): once a shader failed to compile or the program failed
\* to link for a canvas, no buffer of that canvas is uploaded, no frame
\* callback is scheduled and no draw call is issued for it.
C2_FailureStopsSetup ==
  \A s \in Shapes :
    ShaderFailed(s) =>
      /\ \A b \in BufferNames : uploads[s][b] = 0
      /\ pending[s] = 0
      /\ ~Running(s)
      /\ frames[s] = 0

\* C3: when getContext returns null for a canvas there is exactly one
\* alert, no shader is compiled, no WebGL object and no buffer is created,
\* no frame callback is scheduled or run, and the angle stays 0.
C3_NoContextNoWork ==
  \A s \in Shapes :
    ContextFailed(s) =>
      /\ spc[s] = "returned"
      /\ alerts[s] = 1
      /\ compiled[s] = 0
      /\ handles[s] = 0
      /\ \A b \in BufferNames : uploads[s][b] = 0 /\ buffers[s][b] = 0
      /\ pending[s] = 0
      /\ ~Running(s)
      /\ frames[s] = 0
      /\ rotation[s] = 0

\* C3 witness: the cube has no context while the pyramid has drawn and
\* time has run to its end.
C3_Witness ==
  /\ ContextFailed("cube")
  /\ frames["pyramid"] = MaxFrames
  /\ rotation["pyramid"] > 0
  /\ clock = MaxTime

\* C4: a canvas that has a frame callback waiting or running, or that has
\* drawn, has all three of its buffers uploaded.
C4_BuffersBeforeDraw ==
  \A s \in Shapes :
    HasFrames(s) =>
      \A b \in BufferNames :
        uploads[s][b] > 0 /\ buffers[s][b] # 0 /\ data[s][b] # <<>>

\* C4 witness: the pyramid is inside its first draw statement.
C4_Witness ==
  /\ rpc["pyramid"] = "draw"
  /\ frames["pyramid"] = 0
  /\ \A b \in BufferNames : uploads["pyramid"][b] = 1

\* C5: after two consecutive render calls of a shape with timestamps
\* t1 <= t2 the angle is not smaller after the second than after the first,
\* and is larger when t2 > t1 (for a shape's first call, t1 is the time
\* origin 0 and the earlier angle the initial 0); and no step ever
\* decreases an angle.
C5_RotationMonotone ==
  /\ [](\A s \in Shapes :
          Returned(s) =>
            /\ stamp[s] >= before[s].stamp => rotation[s] >= before[s].rotation
            /\ stamp[s] > before[s].stamp => rotation[s] > before[s].rotation)
  /\ [][\A s \in Shapes : rotation'[s] >= rotation[s]]_vars

\* C5 witness: the pyramid's second frame came later than its first and
\* its angle has grown.
C5_Witness ==
  /\ Returned("pyramid")
  /\ stamp["pyramid"] > before["pyramid"].stamp
  /\ before["pyramid"].rotation > 0
  /\ rotation["pyramid"] > before["pyramid"].rotation

\* C6 (as claimed): in the cube's uploaded buffers every vertex that one of
\* the 36 indices of the draw call names has an entry in the colour buffer,
\* and the 4 vertices of each of the 6 faces carry the same colour.
C6_ColorPerFaceVertex ==
  (uploads["cube"]["color"] > 0 /\ uploads["cube"]["indices"] > 0) =>
    LET colors == data["cube"]["color"]
        indices == data["cube"]["indices"]
    IN  /\ \A i \in 1..CubeVertexCount : HasColor(colors, indices[i])
        /\ \A f \in 0..5 : \A v, w \in (4 * f)..(4 * f + 3) :
             /\ HasColor(colors, v)
             /\ HasColor(colors, w)
             /\ ColorAt(colors, v) = ColorAt(colors, w)

\* C7: a canvas never has more than one frame callback waiting, and none
\* while its render is running: render calls requestAnimationFrame only
\* after its other statements.
C7_OnePendingCallback ==
  \A s \in Shapes :
    /\ pending[s] <= 1
    /\ Running(s) => pending[s] = 0

\* C7 witness: the cube's render has drawn and updated the angle and is
\* about to call requestAnimationFrame, in its second frame.
C7_Witness ==
  /\ rpc["cube"] = "raf"
  /\ before["cube"].stamp > 0
  /\ pending["cube"] = 0
  /\ pending["pyramid"] = 1

\* C8: a started loop always has its render waiting or running, every
\* render call that returns has scheduled exactly one more, and each
\* started shape is drawn again and again.
C8_LoopNeverStops ==
  /\ [](\A s \in Shapes : LoopStarted(s) => (pending[s] = 1 \/ Running(s)))
  /\ [][\A s \in Shapes :
          (Running(s) /\ rpc'[s] = "idle") => pending'[s] = pending[s] + 1]_vars
  /\ \A s \in Shapes : [](LoopStarted(s) => <>(rpc[s] = "draw"))

\* C8 witness: both loops are started, both shapes have drawn, and the
\* cube's render is waiting for its next frame.
C8_Witness ==
  /\ \A s \in Shapes : LoopStarted(s) /\ program[s] # 0 /\ frames[s] = MaxFrames
  /\ pending["cube"] = 1
  /\ Running("pyramid")

\* C9: a canvas with frames has created one program, compiled two shaders
\* and uploaded each buffer once; a step of a render call changes nothing
\* of that; and every draw call uses that program and those buffers.
C9_ResourcesAllocatedOnce ==
  /\ [](\A s \in Shapes :
          HasFrames(s) =>
            /\ programs[s] = 1
            /\ compiled[s] = 2
            /\ \A b \in BufferNames : uploads[s][b] = 1
            /\ frames[s] > 0 =>
                 /\ lastDraw[s].program = program[s]
                 /\ \A b \in BufferNames : lastDraw[s][b] = buffers[s][b])
  /\ [][(\E s \in Shapes : Running(s)) => UNCHANGED setupVars]_vars

\* C9 witness: the cube has drawn several frames with its linked program.
C9_Witness ==
  /\ frames["cube"] = MaxFrames
  /\ program["cube"] # 0
  /\ lastDraw["cube"].program = program["cube"]
  /\ lastDraw["cube"].angle > 0

\* C10: a step of one shape's render call leaves the other shape's angle,
\* delta and `then` unchanged, and each shape's angle is given by its own
\* last timestamp alone.
C10_LoopsIndependent ==
  /\ [][\A s \in Shapes :
          (Running(s) \/ rpc'[s] # "idle") =>
            \A t \in Shapes \ {s} :
              /\ rotation'[t] = rotation[t]
              /\ delta'[t] = delta[t]
              /\ then'[t] = then[t]]_vars
  /\ [](\A s \in Shapes :
          (\A t \in Shapes : Returned(t)) => IsSecondsOf(rotation[s], stamp[s]))

\* C10 witness: both shapes have drawn, at different timestamps, and the
\* pyramid's render is about to update its angle.
C10_Witness ==
  /\ rpc["pyramid"] = "update"
  /\ frames["cube"] > 0
  /\ frames["pyramid"] > 0
  /\ delta["pyramid"] > 0
  /\ rotation["cube"] > rotation["pyramid"]
  /\ rotation["pyramid"] > 0

\* The step in which the render of s executes its draw statement.
DrawStep(s) == rpc[s] = "draw" /\ rpc'[s] # "draw"

\* C11 (as claimed): a shape's first frame is drawn with angle 0, and every
\* later frame with the previous frame's timestamp in seconds and never
\* with its own timestamp in seconds.
C11_DrawLagsNeverCurrent ==
  [][\A s \in Shapes :
       DrawStep(s) =>
         IF frames[s] = 0
         THEN lastDraw'[s].angle = 0
         ELSE /\ IsSecondsOf(lastDraw'[s].angle, before[s].stamp)
              /\ ~IsSecondsOf(lastDraw'[s].angle, stamp[s])]_vars

\* C11 (amended): a shape's first frame is drawn with angle 0, and every
\* later frame with the previous frame's timestamp in seconds, which is
\* not its own timestamp in seconds whenever its timestamp is the larger.
C11_DrawLagsOneFrame ==
  [][\A s \in Shapes :
       DrawStep(s) =>
         IF frames[s] = 0
         THEN lastDraw'[s].angle = 0
         ELSE /\ IsSecondsOf(lastDraw'[s].angle, before[s].stamp)
              /\ stamp[s] > before[s].stamp =>
                   ~IsSecondsOf(lastDraw'[s].angle, stamp[s])]_vars

\* C11 witness: the cube's render, called at 3 ms after a call at 1 ms, has
\* drawn with angle 0.001 and has not yet updated the angle.
C11_Witness ==
  /\ rpc["cube"] = "update"
  /\ before["cube"].stamp = 1
  /\ stamp["cube"] = 3
  /\ lastDraw["cube"].angle = 1
  /\ rotation["cube"] = 1

====
